---- MODULE Spec2Model ----
(***************************************************************************)
(* Model of the DoubleSig ink! contract (src/doublesig/lib.rs): a savings  *)
(* account that withholds a 3% fee on every outgoing transfer.             *)
(*                                                                         *)
(* Balance is u128.  Values of that type do not fit the model checker's    *)
(* integers, so a Balance is a tuple of NumLimbs limbs of LimbBits bits,   *)
(* least significant limb first.  The fee is computed by the contract in   *)
(* f64 arithmetic; an f64 is modelled exactly as [m, e] = m * 2^e with a   *)
(* mantissa of at most 53 bits and round-to-nearest-even.                  *)
(***************************************************************************)
EXTENDS Integers, Sequences, FiniteSets, TLC

\* ------------------------------------------------------------------------
\* Balance = u128 as limbs
\* ------------------------------------------------------------------------
LimbBits == 13
NumLimbs == 10
Base == 2^LimbBits
Limbs == 1..NumLimbs
BitPositions == 0..(LimbBits * NumLimbs - 1)
BalanceBits == 128

Zero == [i \in Limbs |-> 0]

\* the Balance with value n, for a literal n < 2^31
N(n) ==
  [i \in Limbs |-> IF i = 1 THEN n % Base
                   ELSE IF i = 2 THEN (n \div Base) % Base
                   ELSE IF i = 3 THEN (n \div (Base * Base)) % Base
                   ELSE 0]

One == N(1)

Bit(x, k) ==
  IF k \in BitPositions
  THEN (x[(k \div LimbBits) + 1] \div 2^(k % LimbBits)) % 2
  ELSE 0

\* number of significant bits
BitLen(x) ==
  IF x = Zero THEN 0
  ELSE LET top == CHOOSE i \in Limbs : x[i] # 0 /\ \A j \in Limbs : j > i => x[j] = 0
           w == CHOOSE b \in 1..LimbBits : 2^(b-1) <= x[top] /\ x[top] < 2^b
       IN (top - 1) * LimbBits + w

Less(x, y) ==
  \E i \in Limbs : x[i] < y[i] /\ \A j \in Limbs : j > i => x[j] = y[j]

LessEq(x, y) == x = y \/ Less(x, y)

RECURSIVE AddFrom(_, _, _, _)
AddFrom(x, y, i, c) ==
  IF i > NumLimbs THEN <<>>
  ELSE <<(x[i] + y[i] + c) % Base>> \o AddFrom(x, y, i + 1, (x[i] + y[i] + c) \div Base)

\* x + y; the carry out of the top limb is dropped
Add(x, y) == AddFrom(x, y, 1, 0)

RECURSIVE SubFrom(_, _, _, _)
SubFrom(x, y, i, b) ==
  IF i > NumLimbs THEN <<>>
  ELSE <<(x[i] - y[i] - b) % Base>>
         \o SubFrom(x, y, i + 1, IF x[i] - y[i] - b < 0 THEN 1 ELSE 0)

\* x - y, for y <= x
Sub(x, y) == SubFrom(x, y, 1, 0)

\* x * y, for a product that fits NumLimbs limbs
Mul(x, y) ==
  LET col[k \in Limbs] ==
        LET s[i \in 0..k] ==
              IF i = 0 THEN 0 ELSE s[i-1] + x[i] * y[k + 1 - i]
        IN s[k]
      c[k \in 0..NumLimbs] ==
        IF k = 0 THEN 0 ELSE (col[k] + c[k-1]) \div Base
  IN [k \in Limbs |-> (col[k] + c[k-1]) % Base]

\* floor(x / 2^s)
ShiftRight(x, s) ==
  LET q == s \div LimbBits
      r == s % LimbBits
      limb(i) == IF i \in Limbs THEN x[i] ELSE 0
  IN [i \in Limbs |->
        (limb(i + q) \div 2^r) + (limb(i + q + 1) % 2^r) * 2^(LimbBits - r)]

\* x * 2^s, bits shifted past the top limb are dropped
ShiftLeft(x, s) ==
  LET q == s \div LimbBits
      r == s % LimbBits
      limb(i) == IF i \in Limbs THEN x[i] ELSE 0
  IN [i \in Limbs |->
        (limb(i - q) % 2^(LimbBits - r)) * 2^r
          + (limb(i - q - 1) \div 2^(LimbBits - r))]

\* TRUE iff x has a one bit below position s
LowBits(x, s) == \E k \in BitPositions : k < s /\ Bit(x, k) = 1

\* floor(x / d) for a small divisor d
DivSmall(x, d) ==
  LET r[i \in 1..(NumLimbs + 1)] ==
        IF i = NumLimbs + 1 THEN 0 ELSE (r[i+1] * Base + x[i]) % d
  IN [i \in Limbs |-> (r[i+1] * Base + x[i]) \div d]

ModSmall(x, d) ==
  LET r[i \in 1..(NumLimbs + 1)] ==
        IF i = NumLimbs + 1 THEN 0 ELSE (r[i+1] * Base + x[i]) % d
  IN r[1]

\* u128::MAX
U128Max == Sub(ShiftLeft(One, BalanceBits), One)

\* checked_sub(..).unwrap_or_default()
SatSub(x, y) == IF Less(x, y) THEN Zero ELSE Sub(x, y)

\* ------------------------------------------------------------------------
\* f64
\* ------------------------------------------------------------------------
MantissaBits == 53

\* nearest f64 to x * 2^e, ties to even
Round53(x, e) ==
  LET len == BitLen(x) IN
  IF len <= MantissaBits THEN [m |-> x, e |-> e]
  ELSE LET s == len - MantissaBits
           q == ShiftRight(x, s)
           up == Bit(x, s - 1) = 1 /\ (LowBits(x, s - 1) \/ Bit(q, 0) = 1)
       IN [m |-> IF up THEN Add(q, One) ELSE q, e |-> e + s]

\* `amount as f64`
U128ToF64(a) == Round53(a, 0)

\* the f64 product
F64Mul(x, y) == Round53(Mul(x.m, y.m), x.e + y.e)

\* f64::ceil
F64Ceil(x) ==
  IF x.e >= 0 THEN x
  ELSE LET q == ShiftRight(x.m, 0 - x.e)
       IN [m |-> IF LowBits(x.m, 0 - x.e) THEN Add(q, One) ELSE q, e |-> 0]

\* `x as Balance` for an integral x >= 0: saturates at u128::MAX
F64ToU128(x) ==
  IF x.e <= 0 THEN ShiftRight(x.m, 0 - x.e)
  ELSE IF BitLen(x.m) + x.e > BalanceBits THEN U128Max
  ELSE ShiftLeft(x.m, x.e)

\* const FEE: f64 = 0.03, i.e. 0x1EB851EB851EB8 * 2^-58
FEE == [m |-> <<7864, 7208, 5242, 7536, 1, 0, 0, 0, 0, 0>>, e |-> -58]

\* f64::MAX = (2^53 - 1) * 2^971
F64Max == [m |-> Sub(ShiftLeft(One, MantissaBits), One), e |-> 971]


\* the fee in 128-bit integer arithmetic that wraps around: amount * 3 / 100
FeeWrapping(amount) ==
  LET t == Mul(amount, N(3))
  IN DivSmall(Sub(t, ShiftLeft(ShiftRight(t, BalanceBits), BalanceBits)), 100)

\* (amount as f64 * FEE).ceil() as Balance
Fee(amount) == F64ToU128(F64Ceil(F64Mul(U128ToF64(amount), FEE)))

\* `f64::MAX as Balance`
F64MaxAsBalance == F64ToU128(F64Max)

\* ------------------------------------------------------------------------
\* Bounds and inputs of the model
\* ------------------------------------------------------------------------
MaxCalls == 3
MaxTime == 1

Contract == "contract"
Callers == {"alice", "eve"}

\* who constructs the contract
Owners == {"alice"}
Destinations == {"bob"}
Accounts == {Contract} \cup Callers \cup Destinations

Hundred == N(100)
Million == N(1000000)
TestBalance == N(100000000)
\* 10^16 + 1
Huge == Add(Mul(TestBalance, TestBalance), One)

\* (contract balance, minimum balance) at construction
Endowments ==
  { <<Hundred, Zero>>, <<Hundred, One>>,
    <<TestBalance, Million>>,
    <<Add(Huge, Huge), One>> }

Amounts ==
  { Zero, N(8), N(90),
    N(2000000), N(90000000), N(98000000),
    Huge, U128Max }

Deposits == { N(8) }

Expirations == {1}

\* the fee of every amount the model draws, evaluated once
FeeOf == [a \in Amounts |-> Fee(a)]

\* ------------------------------------------------------------------------
\* State
\* ------------------------------------------------------------------------
VARIABLES
  user,             \* storage: the owner
  expiration,       \* storage
  amount_held,      \* storage: fees withheld so far
  balances,         \* ledger: balance of every account
  minimum_balance,  \* ledger: existential deposit
  now,              \* ledger: block timestamp
  alive,            \* FALSE once the contract has been terminated
  calls,            \* number of calls made so far
  ret               \* the last call and what it returned

vars == <<user, expiration, amount_held, balances, minimum_balance, now,
          alive, calls, ret>>

Ok == [tag |-> "Ok"]
Err(tag) == [tag |-> tag]
\* a failed transfer reported as an error value instead of a trap
PanicAsError(fault) == [tag |-> "TransferFailed", fault |-> fault]

\* panic!(..): the call traps and the ledger reverts it; `fault` tells
\* whether the transfer failed "for another reason" than the balance
Panic(fault) == [tag |-> "Panic", fault |-> fault]

Call(op, caller, destination, amount, result) ==
  [op |-> op, caller |-> caller, destination |-> destination,
   amount |-> amount, result |-> result]

\* self.env().balance()
get_balance == balances[Contract]

\* self.env().transfer(destination, amount) succeeds: the ledger refuses a
\* transfer that exceeds the balance or leaves less than the minimum
\* balance, or for another reason (fault)
TransferOk(amount, fault) ==
  /\ ~fault
  /\ LessEq(amount, get_balance)
  /\ LessEq(minimum_balance, Sub(get_balance, amount))

\* a transfer that also takes the fee out of the contract
TransferredWithFee(destination, amount) ==
  [balances EXCEPT ![Contract] = Sub(@, Add(amount, Fee(amount))),
                   ![destination] = Add(@, amount)]

\* the ledger after self.env().transfer(destination, amount)
Transferred(destination, amount) ==
  [balances EXCEPT ![Contract] = Sub(@, amount),
                   ![destination] = Add(@, amount)]

\* a termination that hands over the savings only
TerminatedSavingsOnly(beneficiary) ==
  [balances EXCEPT ![Contract] = SatSub(@, amount_held),
                   ![beneficiary] = Add(@, amount_held)]

\* the ledger after self.env().terminate_contract(beneficiary)
Terminated(beneficiary) ==
  [balances EXCEPT ![Contract] = Zero,
                   ![beneficiary] = Add(@, get_balance)]

\* a constructor that stores another account than its caller as the owner
InitOwnerNotCaller ==
  /\ user \in Callers \ Owners
  /\ expiration \in Expirations
  /\ amount_held = Zero
  /\ \E en \in Endowments :
       /\ balances = [a \in Accounts |-> IF a = Contract THEN en[1] ELSE Zero]
       /\ minimum_balance = en[2]
  /\ now = 0
  /\ alive = TRUE
  /\ calls = 0
  /\ \E caller \in Owners : ret = Call("new", caller, "none", Zero, Ok)

\* the state after `new(expiration)`, called with an endowment
Init ==
  /\ user \in Owners
  /\ expiration \in Expirations
  /\ amount_held = Zero
  /\ \E en \in Endowments :
       /\ balances = [a \in Accounts |-> IF a = Contract THEN en[1] ELSE Zero]
       /\ minimum_balance = en[2]
  /\ now = 0
  /\ alive = TRUE
  /\ calls = 0
  /\ ret = Call("new", user, "none", Zero, Ok)

\* a call that returns `result` and changes nothing
Returns(op, caller, destination, amount, result) ==
  /\ ret' = Call(op, caller, destination, amount, result)
  /\ UNCHANGED <<amount_held, balances, alive>>

\* balance - minimum_balance - amount_to_deduct, or 0 when a subtraction
\* underflows
CurrentBalance(balance, amount_to_deduct) ==
  IF Less(balance, minimum_balance) THEN Zero
  ELSE SatSub(Sub(balance, minimum_balance), amount_to_deduct)

\* a transfer_funds that books the fee before it checks the capacity
transfer_funds_fee_first(caller, destination, amount, fault) ==
  /\ alive
  /\ calls < MaxCalls
  /\ calls' = calls + 1
  /\ UNCHANGED <<user, expiration, minimum_balance, now, alive>>
  /\ LET amount_to_deduct == FeeOf[amount]
         current_balance == CurrentBalance(get_balance, amount_to_deduct)
     IN /\ amount_held' = Add(amount_held, amount_to_deduct)
        /\ IF LessEq(current_balance, amount)
           THEN /\ balances' = balances
                /\ ret' = Call("transfer_funds", caller, destination, amount,
                               [tag |-> "InsufficientFunds",
                                total_balance |-> get_balance,
                                funds_to_transfer |-> amount,
                                potential_balance |-> current_balance,
                                existential_deposit |-> minimum_balance])
           ELSE /\ balances' = Transferred(destination, amount)
                /\ ret' = Call("transfer_funds", caller, destination, amount, Ok)

\* a transfer_funds that only the owner may call
transfer_funds_owner_only(caller, destination, amount, fault) ==
  /\ alive
  /\ calls < MaxCalls
  /\ calls' = calls + 1
  /\ UNCHANGED <<user, expiration, minimum_balance, now>>
  /\ LET amount_to_deduct == FeeOf[amount]
         current_balance == CurrentBalance(get_balance, amount_to_deduct)
     IN IF caller # user
        THEN Returns("transfer_funds", caller, destination, amount,
                     Err("CallerIsNotOwner"))
        ELSE IF LessEq(current_balance, amount)
        THEN Returns("transfer_funds", caller, destination, amount,
                     [tag |-> "InsufficientFunds",
                      total_balance |-> get_balance,
                      funds_to_transfer |-> amount,
                      potential_balance |-> current_balance,
                      existential_deposit |-> minimum_balance])
        ELSE IF ~TransferOk(amount, fault)
        THEN Returns("transfer_funds", caller, destination, amount, Panic(fault))
        ELSE /\ balances' = Transferred(destination, amount)
             /\ amount_held' = Add(amount_held, amount_to_deduct)
             /\ alive' = alive
             /\ ret' = Call("transfer_funds", caller, destination, amount, Ok)

transfer_funds(caller, destination, amount, fault) ==
  /\ alive
  /\ calls < MaxCalls
  /\ calls' = calls + 1
  /\ UNCHANGED <<user, expiration, minimum_balance, now>>
  /\ LET balance == get_balance
         amount_to_deduct == FeeOf[amount]
         current_balance == CurrentBalance(balance, amount_to_deduct)
     IN IF Less(F64MaxAsBalance, amount)
        THEN Returns("transfer_funds", caller, destination, amount,
                     Err("TransferAmountTooLarge"))
        ELSE IF LessEq(current_balance, amount)
        THEN Returns("transfer_funds", caller, destination, amount,
                     [tag |-> "InsufficientFunds",
                      total_balance |-> get_balance,
                      funds_to_transfer |-> amount,
                      potential_balance |-> current_balance,
                      existential_deposit |-> minimum_balance])
        ELSE IF ~TransferOk(amount, fault)
        THEN Returns("transfer_funds", caller, destination, amount, Panic(fault))
        ELSE IF Less(U128Max, Add(amount_held, amount_to_deduct))
        THEN \* `+=` overflows
             Returns("transfer_funds", caller, destination, amount, Panic(FALSE))
        ELSE /\ balances' = Transferred(destination, amount)
             /\ amount_held' = Add(amount_held, amount_to_deduct)
             /\ alive' = alive
             /\ ret' = Call("transfer_funds", caller, destination, amount, Ok)

\* the owner check left out
NotOwnerUnchecked(caller) == FALSE

\* self.env().caller() != self.user
NotOwner(caller) == caller # user

\* the time gate opening one block early
NotYetExpiredEarly == now + 1 < expiration

\* now < self.expiration
NotYetExpired == now < expiration

claim_funds(caller) ==
  /\ alive
  /\ calls < MaxCalls
  /\ calls' = calls + 1
  /\ UNCHANGED <<user, expiration, minimum_balance, now>>
  /\ IF NotOwner(caller)
     THEN Returns("claim_funds", caller, "none", Zero, Err("CallerIsNotOwner"))
     ELSE IF NotYetExpired
     THEN Returns("claim_funds", caller, "none", Zero, Err("NotYetExpired"))
     ELSE \* terminate_contract never returns
          /\ balances' = Terminated(user)
          /\ alive' = FALSE
          /\ amount_held' = amount_held
          /\ ret' = Call("claim_funds", caller, "none", Zero, [tag |-> "Terminated"])

\* get_balance().checked_sub(amount_held).unwrap_or_default()
Remainder == SatSub(get_balance, amount_held)

\* a withdraw_savings that pays out by terminating the contract
withdraw_savings_terminating(caller, fault) ==
  /\ alive
  /\ calls < MaxCalls
  /\ calls' = calls + 1
  /\ UNCHANGED <<user, expiration, minimum_balance, now>>
  /\ IF NotOwner(caller)
     THEN Returns("withdraw_savings", caller, "none", Zero, Err("CallerIsNotOwner"))
     ELSE IF NotYetExpired
     THEN Returns("withdraw_savings", caller, "none", Zero, Err("NotYetExpired"))
     ELSE /\ balances' = Terminated(caller)
          /\ amount_held' = Zero
          /\ alive' = FALSE
          /\ ret' = Call("withdraw_savings", caller, "none", Zero, Ok)

withdraw_savings(caller, fault) ==
  /\ alive
  /\ calls < MaxCalls
  /\ calls' = calls + 1
  /\ UNCHANGED <<user, expiration, minimum_balance, now>>
  /\ IF NotOwner(caller)
     THEN Returns("withdraw_savings", caller, "none", Zero, Err("CallerIsNotOwner"))
     ELSE IF NotYetExpired
     THEN Returns("withdraw_savings", caller, "none", Zero, Err("NotYetExpired"))
     ELSE IF Less(Remainder, minimum_balance)
     THEN Returns("withdraw_savings", caller, "none", Zero, Err("WithdrawalFailed"))
     ELSE IF ~TransferOk(amount_held, fault)
     THEN Returns("withdraw_savings", caller, "none", Zero, Panic(fault))
     ELSE /\ balances' = Transferred(caller, amount_held)
          /\ amount_held' = Zero
          /\ alive' = alive
          /\ ret' = Call("withdraw_savings", caller, "none", Zero, Ok)

\* a deposit that is booked as savings
deposit_saved(sender, value) ==
  /\ alive
  /\ calls < MaxCalls
  /\ calls' = calls + 1
  /\ LessEq(value, balances[sender])
  /\ balances' = [balances EXCEPT ![sender] = Sub(@, value),
                                  ![Contract] = Add(@, value)]
  /\ amount_held' = Add(amount_held, value)
  /\ ret' = Call("deposit", sender, Contract, value, Ok)
  /\ UNCHANGED <<user, expiration, minimum_balance, now, alive>>

\* a deposit: `sender` transfers `value` to the contract's address
deposit(sender, value) ==
  /\ alive
  /\ calls < MaxCalls
  /\ calls' = calls + 1
  /\ LessEq(value, balances[sender])
  /\ balances' = [balances EXCEPT ![sender] = Sub(@, value),
                                  ![Contract] = Add(@, value)]
  /\ ret' = Call("deposit", sender, Contract, value, Ok)
  /\ UNCHANGED <<user, expiration, amount_held, minimum_balance, now, alive>>

\* self.get_balance() - minimum_balance - amount_held, or 0 when a
\* subtraction underflows
free == CurrentBalance(get_balance, amount_held)

\* a getter returns `value` and changes nothing
Reads(op, value) ==
  /\ alive
  /\ ret' = Call(op, "none", "none", Zero, [tag |-> "Ok", value |-> value])
  /\ UNCHANGED <<user, expiration, amount_held, balances, minimum_balance,
                 now, alive, calls>>

msg_free == Reads("free", free)

msg_amount_stored == Reads("amount_stored", amount_held)

msg_get_balance == Reads("get_balance", get_balance)

msg_get_expiration == Reads("get_expiration", expiration)

\* a message sent after terminate_contract: the contract is gone and the
\* ledger finds nothing to call
call_after_termination(caller) ==
  /\ ~alive
  /\ calls < MaxCalls
  /\ calls' = calls + 1
  /\ ret' = Call("call_after_termination", caller, "none", Zero,
                 Err("ContractNotFound"))
  /\ UNCHANGED <<user, expiration, amount_held, balances, minimum_balance,
                 now, alive>>

\* the ledger produces the next block
advance_block ==
  /\ now < MaxTime
  /\ now' = now + 1
  /\ ret' = Call("advance_block", "none", "none", Zero, Ok)
  /\ UNCHANGED <<user, expiration, amount_held, balances, minimum_balance,
                 alive, calls>>

Next ==
  \/ \E caller \in Callers, destination \in Destinations,
        amount \in Amounts, fault \in BOOLEAN :
       transfer_funds(caller, destination, amount, fault)
  \/ \E caller \in Callers : claim_funds(caller)
  \/ \E caller \in Callers, fault \in BOOLEAN : withdraw_savings(caller, fault)
  \/ \E sender \in Callers \cup Destinations, value \in Deposits :
       deposit(sender, value)
  \/ msg_free
  \/ msg_amount_stored
  \/ msg_get_balance
  \/ msg_get_expiration
  \/ \E caller \in Callers : call_after_termination(caller)
  \/ advance_block

Spec == Init /\ [][Next]_vars

\* ------------------------------------------------------------------------
\* Vocabulary of the properties
\* ------------------------------------------------------------------------
\* ceiling(amount * 3 / 100) in exact integer arithmetic
CeilFee(amount) ==
  LET t == Mul(amount, N(3))
      q == DivSmall(t, 100)
  IN IF ModSmall(t, 100) = 0 THEN q ELSE Add(q, One)

CeilFeeOf == [a \in Amounts |-> CeilFee(a)]

\* the fee the code computes for `amount` is a Balance and is ceiling(3% of
\* amount) up to the rounding of f64 (relative error below 2^-50, and the
\* ceiling's 1): nothing overflowed or wrapped around
FeeWithoutOverflow(amount) ==
  LET exact == CeilFee(amount)
      fee == FeeOf[amount]
      diff == IF Less(fee, exact) THEN Sub(exact, fee) ELSE Sub(fee, exact)
  IN /\ LessEq(fee, U128Max)
     /\ LessEq(diff, Add(ShiftRight(exact, 50), One))

FeeWithoutOverflowOf == [a \in Amounts |-> FeeWithoutOverflow(a)]

\* the amounts beyond the range the fee computation accepts
TooLargeOf == [a \in Amounts |-> Less(F64MaxAsBalance, a)]

\* the step is a call of `op`
Called(op) == ret'.op = op

Succeeded(op) == ret'.op = op /\ ret'.result = Ok

OthersUnchanged(touched) ==
  \A a \in Accounts \ touched : balances'[a] = balances[a]

NothingMoved == UNCHANGED <<amount_held, balances, alive>>

RecoverableErrors ==
  {"TransferAmountTooLarge", "InsufficientFunds", "CallerIsNotOwner",
   "NotYetExpired", "WithdrawalFailed"}

\* moving `amount` out would leave less than the minimum balance
WouldBreachReserve(amount) == Less(get_balance, Add(amount, minimum_balance))

\* ------------------------------------------------------------------------
\* Properties
\* ------------------------------------------------------------------------

\* C1: while the contract exists, amount_held never exceeds its balance.
C1_SavedWithinBalance == alive => LessEq(amount_held, get_balance)

\* C2: after a successful transfer_funds or withdraw_savings the balance is
\* at least the minimum balance, and a transfer_funds or withdraw_savings
\* that would leave less than the minimum balance is rejected with an error
\* by the contract's own check, with nothing moved.
C2_ReserveInvariant ==
  [][ /\ (Succeeded("transfer_funds") \/ Succeeded("withdraw_savings"))
           => LessEq(minimum_balance, get_balance')
      /\ (Called("transfer_funds") /\ WouldBreachReserve(ret'.amount))
           => ret'.result.tag \in RecoverableErrors /\ NothingMoved
      /\ (Called("withdraw_savings") /\ WouldBreachReserve(amount_held))
           => ret'.result.tag \in RecoverableErrors /\ NothingMoved
    ]_vars

\* C3: a successful transfer_funds of an amount > 0 adds exactly
\* ceiling(amount * 3 / 100) to amount_held, and that is at least 1.
C3_FeeInvariant ==
  [][ (Succeeded("transfer_funds") /\ ret'.amount # Zero)
        => /\ amount_held' = Add(amount_held, CeilFeeOf[ret'.amount])
           /\ LessEq(One, CeilFeeOf[ret'.amount])
    ]_vars

\* C4: a successful transfer_funds takes exactly `amount` from the contract
\* and gives exactly `amount` to the destination, the fee staying in the
\* contract's balance; from 100,000,000 the transfers of 2,000,000 and then
\* 90,000,000 leave a balance of 8,000,000 and 2,760,000 held.
AfterScenarioA ==
  /\ calls = 1
  /\ minimum_balance = Million
  /\ ret.op = "transfer_funds" /\ ret.result = Ok /\ ret.amount = N(2000000)

C4_SpendMovesExactlyAmount ==
  [][ /\ Succeeded("transfer_funds")
           => /\ balances'[Contract] = Sub(get_balance, ret'.amount)
              /\ balances'[ret'.destination]
                   = Add(balances[ret'.destination], ret'.amount)
              /\ OthersUnchanged({Contract, ret'.destination})
      /\ (calls = 0 /\ get_balance = TestBalance
            /\ Succeeded("transfer_funds") /\ ret'.amount = N(2000000))
           => get_balance' = N(98000000) /\ amount_held' = N(60000)
      /\ (AfterScenarioA /\ Succeeded("transfer_funds")
            /\ ret'.amount = N(90000000))
           => get_balance' = N(8000000) /\ amount_held' = N(2760000)
    ]_vars

C4_Witness ==
  /\ calls = 2
  /\ ret.op = "transfer_funds" /\ ret.result = Ok /\ ret.amount = N(90000000)
  /\ balances["bob"] = N(92000000)
  /\ get_balance = N(8000000)
  /\ amount_held = N(2760000)

\* max(0, balance - minimum balance - ceiling(amount * 3 / 100))
SpecCapacity(amount) ==
  LET need == Add(minimum_balance, CeilFeeOf[amount])
  IN SatSub(get_balance, need)

\* C5: transfer_funds fails with InsufficientFunds exactly when
\* max(0, balance - minimum balance - fee) <= amount, and the error carries
\* the balance before the call, that capacity, the amount and the minimum
\* balance.
C5_InsufficientFunds ==
  [][ Called("transfer_funds")
        => /\ ret'.result.tag = "InsufficientFunds"
                <=> LessEq(SpecCapacity(ret'.amount), ret'.amount)
           /\ ret'.result.tag = "InsufficientFunds"
                => ret'.result =
                     [tag |-> "InsufficientFunds",
                      total_balance |-> get_balance,
                      potential_balance |-> SpecCapacity(ret'.amount),
                      funds_to_transfer |-> ret'.amount,
                      existential_deposit |-> minimum_balance]
    ]_vars

\* C6: a transfer_funds that returns InsufficientFunds or
\* TransferAmountTooLarge leaves amount_held and every balance as they were.
C6_FailedSpendChangesNothing ==
  [][ (Called("transfer_funds")
         /\ ret'.result.tag \in {"InsufficientFunds", "TransferAmountTooLarge"})
        => amount_held' = amount_held /\ balances' = balances /\ alive' = alive
    ]_vars

C6_Witness ==
  /\ ret.op = "transfer_funds"
  /\ ret.result.tag = "InsufficientFunds"
  /\ amount_held # Zero
  /\ get_balance # Zero

\* C7: withdraw_savings and claim_funds called by anyone but the owner fail
\* with CallerIsNotOwner and change neither amount_held, nor a balance, nor
\* the contract's existence, at any time and in any state.
C7_Authorization ==
  [][ ((Called("withdraw_savings") \/ Called("claim_funds"))
         /\ ret'.caller # user)
        => ret'.result = Err("CallerIsNotOwner") /\ NothingMoved
    ]_vars

C7_Witness ==
  /\ ret.op = "claim_funds"
  /\ ret.caller # user
  /\ ret.result = Err("CallerIsNotOwner")
  /\ now >= expiration
  /\ amount_held # Zero
  /\ alive

\* C8 as claimed: withdraw_savings and claim_funds called before the
\* expiration fail with NotYetExpired and move nothing, whoever calls.
C8_TimeGateAnyCaller ==
  [][ ((Called("withdraw_savings") \/ Called("claim_funds"))
         /\ now < expiration)
        => ret'.result = Err("NotYetExpired") /\ NothingMoved
    ]_vars

\* C8: withdraw_savings and claim_funds called by the owner before the
\* expiration fail with NotYetExpired, whatever the balance, and move
\* nothing.
C8_TimeGate ==
  [][ ((Called("withdraw_savings") \/ Called("claim_funds"))
         /\ ret'.caller = user /\ now < expiration)
        => ret'.result = Err("NotYetExpired") /\ NothingMoved
    ]_vars

C8_Witness ==
  /\ ret.op = "withdraw_savings"
  /\ ret.caller = user
  /\ ret.result = Err("NotYetExpired")
  /\ now < expiration
  /\ amount_held # Zero

\* C9: claim_funds called by the owner at or after the expiration always
\* terminates the contract and hands its whole balance to the owner, with
\* no minimum-balance check.
C9_Terminate ==
  [][ (Called("claim_funds") /\ ret'.caller = user /\ ~(now < expiration))
        => /\ ret'.result.tag = "Terminated"
           /\ ~alive'
           /\ balances'[Contract] = Zero
           /\ balances'[user] = Add(balances[user], get_balance)
           /\ OthersUnchanged({Contract, user})
    ]_vars

C9_Witness ==
  /\ ~alive
  /\ ret.op = "claim_funds"
  /\ amount_held # Zero
  /\ balances[Contract] = Zero
  /\ Less(amount_held, balances[user])

\* C10: withdraw_savings called by the owner at or after the expiration
\* fails with WithdrawalFailed, changing nothing, exactly when
\* max(0, balance - amount_held) is below the minimum balance; otherwise
\* (the ledger not failing for another reason) it moves exactly amount_held
\* to the owner and resets amount_held to 0.
C10_WithdrawSavings ==
  [][ (Called("withdraw_savings") /\ ret'.caller = user /\ ~(now < expiration))
        => IF Less(SatSub(get_balance, amount_held), minimum_balance)
           THEN ret'.result = Err("WithdrawalFailed") /\ NothingMoved
           ELSE ret'.result # Panic(TRUE)
                  => /\ ret'.result = Ok
                     /\ balances'[Contract] = Sub(get_balance, amount_held)
                     /\ balances'[user] = Add(balances[user], amount_held)
                     /\ OthersUnchanged({Contract, user})
                     /\ amount_held' = Zero
    ]_vars

\* C11 as claimed: claim_funds called by the owner succeeds at any time
\* while the contract exists and hands the funds to the owner.
C11_OptOutAnyTime ==
  [][ (alive /\ Called("claim_funds") /\ ret'.caller = user)
        => /\ ret'.result.tag = "Terminated"
           /\ ~alive'
           /\ balances'[user] = Add(balances[user], get_balance)
    ]_vars

\* C12: withdraw_savings never panics, the ledger refusing a transfer only
\* for lack of funds or of the minimum balance.
C12_WithdrawNeverPanics ==
  [][ Called("withdraw_savings") => ret'.result # Panic(FALSE) ]_vars

\* C13: only claim_funds ends the contract, and once it is terminated no
\* call changes a balance or amount_held, nor brings it back.
C13_TerminatedAbsorbing ==
  [][ /\ (alive /\ ~alive') => Called("claim_funds")
      /\ ~alive => (~alive' /\ balances' = balances /\ amount_held' = amount_held)
    ]_vars

C13_Witness ==
  /\ ~alive
  /\ ret.op = "call_after_termination"
  /\ balances[Contract] = Zero
  /\ balances[user] # Zero

\* C14: a ledger transfer that fails after the checks of transfer_funds or
\* withdraw_savings have passed makes the call trap: the call returns none
\* of the error values of its checks, nor any other, and amount_held and
\* every balance stay as they were.
C14_FatalTransferFault ==
  [][ /\ (Called("transfer_funds")
            /\ ret'.result.tag \notin {"Ok", "InsufficientFunds",
                                       "TransferAmountTooLarge"})
           => ret'.result.tag = "Panic" /\ NothingMoved
      /\ (Called("withdraw_savings")
            /\ ret'.result.tag \notin {"Ok", "CallerIsNotOwner", "NotYetExpired",
                                       "WithdrawalFailed"})
           => ret'.result.tag = "Panic" /\ NothingMoved
    ]_vars

C14_Witness ==
  /\ ret.op = "withdraw_savings"
  /\ ret.result = Panic(TRUE)
  /\ amount_held # Zero
  /\ LessEq(Add(amount_held, minimum_balance), get_balance)

\* C15: transfer_funds answers an amount beyond the range of the fee
\* computation with TransferAmountTooLarge and moves nothing; for every other
\* amount, up to the largest Balance, the fee it computes has not overflowed
\* or wrapped around.
C15_FeeNeverOverflows ==
  [][ Called("transfer_funds") =>
        /\ TooLargeOf[ret'.amount] => ret'.result.tag = "TransferAmountTooLarge"
        /\ ret'.result.tag = "TransferAmountTooLarge" => NothingMoved
        /\ ret'.result.tag # "TransferAmountTooLarge"
             => FeeWithoutOverflowOf[ret'.amount]
    ]_vars

\* transfer_funds was called with the largest Balance and computed its fee
C15_Witness ==
  /\ ret.op = "transfer_funds"
  /\ ret.amount = U128Max
  /\ ret.result.tag = "InsufficientFunds"
  /\ ret.result.potential_balance = SatSub(Sub(get_balance, minimum_balance),
                                           FeeOf[U128Max])

\* C16: `new` stores its caller as user, its argument as expiration and 0
\* as amount_held, and no later call, successful or failed, getters
\* included, changes user or expiration.
C16_OwnerAndExpirationFixed ==
  /\ [](ret.op = "new" => /\ user = ret.caller
                          /\ expiration \in Expirations
                          /\ amount_held = Zero)
  /\ [][user' = user /\ expiration' = expiration]_vars

\* the owner has spent, waited and withdrawn the savings, and is still the
\* owner
C16_Witness ==
  /\ ret.op = "withdraw_savings"
  /\ ret.result = Ok
  /\ user \in Owners
  /\ ret.caller = user
  /\ expiration = 1
  /\ now >= expiration
  /\ balances[user] # Zero

\* C17: amount_held is the sum of the fees withheld by the successful
\* transfer_funds calls since the last successful withdraw_savings: a
\* successful transfer_funds adds its fee, a successful withdraw_savings sets
\* it to 0, and no failed call, deposit, getter or other step changes it.
C17_SavedIsSumOfFees ==
  [][ IF Succeeded("transfer_funds")
      THEN amount_held' = Add(amount_held, FeeOf[ret'.amount])
      ELSE IF Succeeded("withdraw_savings")
      THEN amount_held' = Zero
      ELSE amount_held' = amount_held
    ]_vars

\* 2,000,000 spent, its fee of 60,000 withdrawn by the owner, 90,000,000
\* spent: only the second fee is held
C17_Witness ==
  /\ calls = 3
  /\ ret.op = "transfer_funds" /\ ret.result = Ok /\ ret.amount = N(90000000)
  /\ balances[user] = N(60000)
  /\ amount_held = N(2700000)

\* C18 as claimed: a successful transfer_funds never moves more than free()
\* returned just before the call, so that afterwards the balance still
\* covers the minimum balance plus amount_held.
C18_SpendWithinFree ==
  [][ Succeeded("transfer_funds")
        => /\ LessEq(ret'.amount, free)
           /\ LessEq(Add(minimum_balance, amount_held'), balances'[Contract])
    ]_vars

\* C19: what transfer_funds returns and does is determined by the
\* contract's balance, the minimum balance, amount_held, the destination and
\* the amount alone (and by the ledger accepting the transfer): neither the
\* caller, nor the owner, nor the time, nor the expiration enters, so the
\* owner and anyone else, before and after the expiration, get the same
\* result, the same amount_held and the same balances.
C19_SpendIgnoresCallerAndTime ==
  [][ Called("transfer_funds") =>
        \E amount \in {ret'.amount},
           capacity \in {SatSub(SatSub(get_balance, minimum_balance),
                                FeeOf[ret'.amount])} :
          IF TooLargeOf[amount]
          THEN ret'.result = Err("TransferAmountTooLarge") /\ NothingMoved
          ELSE IF LessEq(capacity, amount)
          THEN /\ ret'.result =
                    [tag |-> "InsufficientFunds",
                     total_balance |-> get_balance,
                     funds_to_transfer |-> amount,
                     potential_balance |-> capacity,
                     existential_deposit |-> minimum_balance]
               /\ NothingMoved
          ELSE \/ /\ ret'.result = Ok
                  /\ balances' = Transferred(ret'.destination, amount)
                  /\ amount_held' = Add(amount_held, FeeOf[amount])
                  /\ alive' = alive
               \/ /\ ret'.result = Panic(TRUE)
                  /\ NothingMoved
    ]_vars

\* someone who is not the owner has spent before the expiration
C19_Witness ==
  /\ ret.op = "transfer_funds"
  /\ ret.result = Ok
  /\ ret.caller # user
  /\ now < expiration
  /\ balances[ret.destination] = ret.amount
  /\ amount_held = FeeOf[ret.amount]

====
